---- MODULE Spec2Model ----
(***************************************************************************)
(* CsvRecorder of msr-recorder (src/lib.rs): an in-memory buffer of        *)
(* time-stamped snapshots that persist() sorts, encodes and appends to a   *)
(* CSV file through a buffering csv::Writer.                               *)
(*                                                                         *)
(* The file is modelled as the sequence of records it holds (a record is   *)
(* the sequence of cell texts handed to Writer::write_record).  File I/O   *)
(* can fail: the open, and every write of the writer's internal buffer to  *)
(* the file.  Which I/O operation fails is an input of the Persist action. *)
(***************************************************************************)
EXTENDS Integers, Sequences, FiniteSets, TLC

\* ------------------------------------------------------------------ bounds
\* Total number of record()/persist() calls explored in one behaviour.
MaxCalls == 4

\* Number of records the csv::Writer holds in memory before it has to write
\* them out to the file (the real writer holds 8 KiB of text).
WriterCap == 2

\* ------------------------------------------------------- inputs of record()
\* Timestamps, in milliseconds since the epoch.
Times == {1000, 2500}

\* Flat maps Key -> Value handed to record().  A Value is <<variant, payload>>;
\* a Decimal payload is given in tenths, a Timeout payload in milliseconds.
Maps ==
    { ("in.a" :> <<"Integer", 42>> @@ "out.b" :> <<"Bit", TRUE>>),
      ("in.a" :> <<"Text", "x">> @@ "mem.c" :> <<"Timeout", 0>>),
      ("in.a" :> <<"Bin", <<1, 2, 3>>>> @@ "out.b" :> <<"Decimal", 35>>) }

\* CsvRecorderConfig values the recorder is constructed with: the ordered
\* key list and the optional time format (<<>> is None, <<f>> is Some(f)).
Configs ==
    { [key_list |-> <<"out.b", "in.a">>, time_format |-> <<>>],
      [key_list |-> <<"out.b", "in.a">>, time_format |-> <<"%s">>] }

\* Content the target file may hold before the recorder is created.
OldFiles == { <<>>, << <<"timestamp_utc", "old.k">>, <<"500", "1">> >> }

VARIABLES
    created_header,     \* CsvRecorder.created_header
    states,             \* CsvRecorder.states; each entry also carries the
                        \* number of the record() call that pushed it (id)
    cfg,                \* CsvRecorder.cfg
    file,               \* records held by the file at cfg.file_name
    last_call,          \* the method called last: "new", "record", "persist"
    result,             \* what the last call returned
    warned,             \* the warnings the last call logged
    calls,              \* number of calls made so far
    nrecorded,          \* number of record() calls so far
    since_ok,           \* record() calls since the last successful persist()
    prev_len,           \* Len(file) before the last call
    file0,              \* content of the file when the recorder was created
    nonempty_persists,  \* persist() calls made on a non-empty buffer so far
    opened,             \* persist() calls that opened the file so far
    failures,           \* persist() calls that returned an error so far
    io_failed,          \* whether an I/O operation of the last call failed
    prev_call,          \* last_call and result as they were before the last call
    recorded,           \* every snapshot that was passed to record() so far
    input,              \* the arguments of the last call
    output              \* <<r>> once a function applied to input returned r

vars == << created_header, states, cfg, file, last_call, result, warned, calls,
           nrecorded, since_ok, prev_len, file0, nonempty_persists, opened,
           failures, io_failed, prev_call, recorded, input, output >>

\* ---------------------------------------------------------------- encoding
\* f64::to_string of a value given in tenths (non-negative).
DecimalToString(d) ==
    IF d % 10 = 0 THEN ToString(d \div 10)
    ELSE ToString(d \div 10) \o "." \o ToString(d % 10)

\* An encoding that gives "true" for the durations that are not zero.
EncodeValueTimeoutInverted(v) ==
    CASE v[1] = "Decimal" -> DecimalToString(v[2])
      [] v[1] = "Integer" -> ToString(v[2])
      [] v[1] = "Bit"     -> IF v[2] THEN "true" ELSE "false"
      [] v[1] = "Text"    -> v[2]
      [] v[1] = "Timeout" -> IF v[2] # 0 THEN "true" ELSE "false"
      [] v[1] = "Bin"     -> ""

\* The match over Value in persist(): the cell text of one value.
EncodeValue(v) ==
    CASE v[1] = "Decimal" -> DecimalToString(v[2])
      [] v[1] = "Integer" -> ToString(v[2])
      [] v[1] = "Bit"     -> IF v[2] THEN "true" ELSE "false"
      [] v[1] = "Text"    -> v[2]
      [] v[1] = "Timeout" -> IF v[2] = 0 THEN "true" ELSE "false"
      [] v[1] = "Bin"     -> ""

\* state.get(key) mapped to a cell text: "" when the key is absent.
Cell(values, key) ==
    IF key \in DOMAIN values THEN EncodeValue(values[key]) ELSE ""

\* The warnings the value match logs for one snapshot.
BinWarnings(c, values) ==
    { <<"The binary data will not be recorded", c.key_list[j]>> :
        j \in { i \in 1..Len(c.key_list) :
                  /\ c.key_list[i] \in DOMAIN values
                  /\ values[c.key_list[i]][1] = "Bin" } }

\* time.format(fmt): "%s" is the number of seconds since the epoch.
FormatTime(time, fmt) ==
    CASE fmt = "%s" -> ToString(time \div 1000)

\* The timestamp cell of a row.
TimeCell(c, time) ==
    IF c.time_format # <<>> THEN FormatTime(time, c.time_format[1])
    ELSE ToString(time)

\* A header without the timestamp column.
HeaderRecKeysOnly(c) == c.key_list

\* A header whose first cell is "timestamp".
HeaderRecTimestamp(c) == <<"timestamp">> \o c.key_list

\* The header record.
HeaderRec(c) == <<"timestamp_utc">> \o c.key_list

\* A row that holds cells for the keys the snapshot has only.
RowRecSkipAbsent(c, e) ==
    LET present == SelectSeq(c.key_list, LAMBDA k : k \in DOMAIN e.values)
    IN  <<TimeCell(c, e.time)>> \o
            [j \in 1..Len(present) |-> Cell(e.values, present[j])]

\* The record written for one buffered snapshot.
RowRec(c, e) ==
    <<TimeCell(c, e.time)>> \o
        [j \in 1..Len(c.key_list) |-> Cell(e.values, c.key_list[j])]

\* -------------------------------------------------------------------- sort
\* An insertion that puts an element in front of the elements of equal time.
RECURSIVE InsertByTimeUnstable(_, _)
InsertByTimeUnstable(sorted, e) ==
    IF sorted = <<>> THEN <<e>>
    ELSE IF Head(sorted).time < e.time
         THEN <<Head(sorted)>> \o InsertByTimeUnstable(Tail(sorted), e)
         ELSE <<e>> \o sorted

\* Vec::sort_by is a stable sort: an element goes behind every element that
\* does not compare greater.
RECURSIVE InsertByTime(_, _)
InsertByTime(sorted, e) ==
    IF sorted = <<>> THEN <<e>>
    ELSE IF Head(sorted).time <= e.time
         THEN <<Head(sorted)>> \o InsertByTime(Tail(sorted), e)
         ELSE <<e>> \o sorted

\* A sort that keeps one snapshot per timestamp (sort followed by dedup).
RECURSIVE SortDedupByTime(_)
SortDedupByTime(s) ==
    IF s = <<>> THEN <<>>
    ELSE LET rest == SortDedupByTime(SubSeq(s, 1, Len(s) - 1))
         IN  IF \E k \in 1..Len(rest) : rest[k].time = s[Len(s)].time
             THEN rest
             ELSE InsertByTime(rest, s[Len(s)])

RECURSIVE SortByTime(_)
SortByTime(s) ==
    IF s = <<>> THEN <<>>
    ELSE InsertByTime(SortByTime(SubSeq(s, 1, Len(s) - 1)), s[Len(s)])

\* ------------------------------------------------------------- csv::Writer
\* An open that truncates the file.
OpenTruncate(f) == <<>>

\* OpenOptions::new().create(true).write(true).append(true).open(..): the
\* content the writes of this call are placed behind.
OpenAppend(f) == f

\* Writer::from_writer(file): an empty buffer in front of the file.  fail_at
\* is the number of the write to the file that fails (0: none fails).
NewWriter(f, fail_at) ==
    [disk |-> f, buf |-> <<>>, nwrites |-> 0, fail_at |-> fail_at, err |-> FALSE]

\* Writer::flush_buf: write the buffered records to the file with write_all;
\* the buffer is emptied only when the write succeeded.
FlushBuf(w) ==
    IF w.nwrites + 1 = w.fail_at
    THEN [w EXCEPT !.nwrites = @ + 1, !.err = TRUE]
    ELSE [w EXCEPT !.disk = @ \o w.buf, !.buf = <<>>, !.nwrites = @ + 1]

\* Writer::write_record: the record goes to the buffer, which is written out
\* first when it is full.
WriteRecord(w, rec) ==
    LET w1 == IF Len(w.buf) >= WriterCap THEN FlushBuf(w) ELSE w
    IN  IF w1.err THEN w1 ELSE [w1 EXCEPT !.buf = Append(@, rec)]

\* Drop of the Writer at the end of persist(): one more flush whose error is
\* ignored.  drop_ok tells whether that write reaches the file.
DropWriter(w, drop_ok) ==
    IF drop_ok THEN w.disk \o w.buf ELSE w.disk

\* ----------------------------------------------------------------- persist
\* The flag is left as it is.
KeepHeaderFlag(h) == h

\* self.created_header = true
SetHeaderFlag(h) == TRUE

\* The loop over self.states of persist(), from snapshot i on.
RECURSIVE WriteStates(_, _, _, _, _, _)
WriteStates(i, sorted, c, w, h, warns) ==
    IF i > Len(sorted)
    THEN [w |-> w, created_header |-> h, err |-> "none", warned |-> warns]
    ELSE LET w1 == IF ~h THEN WriteRecord(w, HeaderRec(c)) ELSE w
             h1 == IF ~h /\ ~w1.err THEN SetHeaderFlag(h) ELSE h
             ws == warns \cup BinWarnings(c, sorted[i].values)
             w2 == WriteRecord(w1, RowRec(c, sorted[i]))
         IN  IF w1.err
             THEN [w |-> w1, created_header |-> h1, err |-> "header",
                   warned |-> warns]
             ELSE IF w2.err
                  THEN [w |-> w2, created_header |-> h1, err |-> "row",
                        warned |-> ws]
                  ELSE WriteStates(i + 1, sorted, c, w2, h1, ws)

\* The buffer is cleared whatever the outcome.
StatesCleared(sorted, ok) == <<>>

\* The buffer is never cleared.
StatesKept(sorted, ok) == sorted

\* A failed call drops the first snapshot of the batch from the buffer.
StatesTailKept(sorted, ok) == IF ok THEN <<>> ELSE Tail(sorted)

\* self.states at the end of persist(): sorted in place, and replaced by the
\* empty vector only on the path that returns Ok.
StatesAfter(sorted, ok) == IF ok THEN <<>> ELSE sorted

\* No early return.
NeverEmpty(s) == FALSE

\* self.states.is_empty()
IsEmpty(s) == s = <<>>

\* An open that fails after the buffer was sorted.
OpenErrorSorted(h, s, f) ==
    [created_header |-> h, states |-> SortByTime(s), file |-> f,
     result |-> "ErrOpen", warned |-> {}, io_failed |-> TRUE]

\* .open(&self.cfg.file_name)? returning the error: nothing has been done yet.
OpenError(h, s, f) ==
    [created_header |-> h, states |-> s, file |-> f, result |-> "ErrOpen",
     warned |-> {}, io_failed |-> TRUE]

\* One persist() call on recorder state (h, s, c) and file content f, with
\* the I/O outcomes open_ok, fail_at and drop_ok.
PersistRun(h, s, c, f, open_ok, fail_at, drop_ok) ==
    IF IsEmpty(s)
    THEN [created_header |-> h, states |-> s, file |-> f, result |-> "Ok",
          warned |-> {<<"no states to persist">>}, io_failed |-> FALSE]
    ELSE IF ~open_ok
    THEN OpenError(h, s, f)
    ELSE LET sorted == SortByTime(s)
             run == WriteStates(1, sorted, c, NewWriter(OpenAppend(f), fail_at),
                                h, {})
             w3 == IF run.err = "none" THEN FlushBuf(run.w) ELSE run.w
             ok == ~w3.err
         IN  [created_header |-> run.created_header,
              states |-> StatesAfter(sorted, ok),
              file |-> DropWriter(w3, drop_ok),
              result |-> IF ok THEN "Ok"
                         ELSE CASE run.err = "none"   -> "ErrFlush"
                                [] run.err = "header" -> "ErrHeader"
                                [] run.err = "row"    -> "ErrRow",
              warned |-> run.warned,
              io_failed |-> w3.err]

\* ------------------------------------------------------------------ actions
\* CsvRecorder::new(cfg), on a file that may already hold content.
Init ==
    /\ cfg \in Configs
    /\ file0 \in OldFiles
    /\ file = file0
    /\ created_header = FALSE
    /\ states = <<>>
    /\ last_call = "new"
    /\ result = "Ok"
    /\ warned = {}
    /\ calls = 0
    /\ nrecorded = 0
    /\ since_ok = 0
    /\ prev_len = Len(file0)
    /\ nonempty_persists = 0
    /\ opened = 0
    /\ failures = 0
    /\ io_failed = FALSE
    /\ prev_call = [call |-> "none", result |-> "Ok"]
    /\ recorded = {}
    /\ input = <<>>
    /\ output = <<>>

\* An element put in front of the buffer.
PushFront(s, e) == <<e>> \o s

\* self.states.push((time, values))
Push(s, e) == Append(s, e)

\* CsvRecorder::record(time, values)
Record ==
    /\ calls < MaxCalls
    /\ \E time \in Times, values \in Maps :
         LET e == [time |-> time, values |-> values, id |-> nrecorded + 1]
         IN  /\ states' = Push(states, e)
             /\ recorded' = recorded \cup {e}
             /\ input' = <<time, values>>
    /\ last_call' = "record"
    /\ result' = "Ok"
    /\ warned' = {}
    /\ calls' = calls + 1
    /\ nrecorded' = nrecorded + 1
    /\ since_ok' = since_ok + 1
    /\ prev_len' = Len(file)
    /\ io_failed' = FALSE
    /\ prev_call' = [call |-> last_call, result |-> result]
    /\ UNCHANGED << created_header, cfg, file, file0, nonempty_persists, opened,
                    failures, output >>

\* CsvRecorder::persist()
Persist ==
    /\ calls < MaxCalls
    /\ \E open_ok \in BOOLEAN, fail_at \in 0..(Len(states) + 1),
          drop_ok \in BOOLEAN :
         LET out == PersistRun(created_header, states, cfg, file,
                               open_ok, fail_at, drop_ok)
         IN  /\ created_header' = out.created_header
             /\ states' = out.states
             /\ file' = out.file
             /\ result' = out.result
             /\ warned' = out.warned
             /\ since_ok' = IF out.result = "Ok" THEN 0 ELSE since_ok
             /\ opened' = IF states # <<>> /\ out.result # "ErrOpen"
                          THEN opened + 1 ELSE opened
             /\ failures' = IF out.result # "Ok" THEN failures + 1 ELSE failures
             /\ io_failed' = out.io_failed
    /\ prev_call' = [call |-> last_call, result |-> result]
    /\ last_call' = "persist"
    /\ calls' = calls + 1
    /\ prev_len' = Len(file)
    /\ nonempty_persists' = IF states # <<>> THEN nonempty_persists + 1
                            ELSE nonempty_persists
    /\ input' = <<>>
    /\ UNCHANGED << cfg, file0, nrecorded, recorded, output >>

Next == Record \/ Persist

Spec == Init /\ [][Next]_vars

\* ------------------------------------------- the encoding of single values
\* The variables of the recorder, and their values where no recorder is used.
recorder_vars ==
    << created_header, states, cfg, file, last_call, result, warned, calls,
       nrecorded, since_ok, prev_len, file0, nonempty_persists, opened,
       failures, io_failed, prev_call, recorded >>

NoRecorder ==
    /\ cfg = [key_list |-> <<>>, time_format |-> <<>>]
    /\ file0 = <<>> /\ file = <<>>
    /\ created_header = FALSE /\ states = <<>>
    /\ last_call = "new" /\ result = "Ok" /\ warned = {}
    /\ calls = 0 /\ nrecorded = 0 /\ since_ok = 0 /\ prev_len = 0
    /\ nonempty_persists = 0 /\ opened = 0 /\ failures = 0
    /\ io_failed = FALSE
    /\ prev_call = [call |-> "none", result |-> "Ok"]
    /\ recorded = {}

\* Values of every variant of msr::Value: Decimal in tenths, Timeout in
\* milliseconds, Bin as a sequence of bytes.
Values ==
    { <<"Integer", n>> : n \in (-12..12) \cup {42, 1000} }
      \cup { <<"Bit", b>> : b \in BOOLEAN }
      \cup { <<"Text", t>> : t \in {"", "x", "a,b", "false"} }
      \cup { <<"Timeout", d>> : d \in (0..10) \cup {5000} }
      \cup { <<"Bin", b>> : b \in {<<>>, <<0>>, <<1, 2, 3>>} }
      \cup { <<"Decimal", d>> : d \in {0, 5, 35, 420} }

\* A recorder configured with the one key "k", with and without time format.
EncConfigs ==
    { [key_list |-> <<"k">>, time_format |-> <<>>],
      [key_list |-> <<"k">>, time_format |-> <<"%s">>] }

\* input = <<cfg, time, value>>: one snapshot ("k" :> value) to be persisted.
InitEnc ==
    /\ NoRecorder
    /\ input \in { <<c, t, v>> : c \in EncConfigs, t \in Times, v \in Values }
    /\ output = <<>>

\* record(time, {"k": value}) and persist() on a new recorder and a new file,
\* with no I/O failure: what persist() returns and leaves behind.
Encode ==
    /\ output = <<>>
    /\ output' = << PersistRun(FALSE,
                               << [time |-> input[2],
                                   values |-> ("k" :> input[3]), id |-> 1] >>,
                               input[1], <<>>, TRUE, 0, TRUE) >>
    /\ UNCHANGED << input, recorder_vars >>

SpecEnc == InitEnc /\ [][Encode]_vars

\* ------------------------------------------------------ the key enumerator
\* Keys and ids of the enumerator and of the flattener are sequences of
\* characters, so that keys.sort() can compare them as Rust compares Strings:
\* byte by byte.  Chars lists the characters in use in ascending byte order.
Chars ==
    << ".", "0", "1", "2", "3", "4", "5", "6", "7", "8", "9", "L", "_", "a", "b", "c", "d", "e", "f", "g", "h", "i", "j", "k", "l", "m", "n", "o", "p", "q", "r", "s", "t", "u", "v", "w", "x", "y", "z" >>

Code(ch) == CHOOSE i \in 1..Len(Chars) : Chars[i] = ch

\* a < b for Strings.
RECURSIVE StrLess(_, _)
StrLess(a, b) ==
    IF a = <<>> THEN b # <<>>
    ELSE IF b = <<>> THEN FALSE
    ELSE IF Head(a) = Head(b) THEN StrLess(Tail(a), Tail(b))
    ELSE Code(Head(a)) < Code(Head(b))

\* The literal parts of the keys.
Dot == <<".">>
W_setpoint == <<"s", "e", "t", "p", "o", "i", "n", "t">>
W_in == <<"i", "n">>
W_out == <<"o", "u", "t">>
W_mem == <<"m", "e", "m">>
W_controller == <<"c", "o", "n", "t", "r", "o", "l", "l", "e", "r">>
W_fsm == <<"f", "s", "m">>
W_rules == <<"r", "u", "l", "e", "s">>
W_pid == <<"p", "i", "d">>
W_bb == <<"b", "b">>
W_target == <<"t", "a", "r", "g", "e", "t">>
W_prev_value == <<"p", "r", "e", "v", "_", "v", "a", "l", "u", "e">>
W_p == <<"p">>
W_i == <<"i">>
W_d == <<"d">>
W_threshold == <<"t", "h", "r", "e", "s", "h", "o", "l", "d">>
W_current == <<"c", "u", "r", "r", "e", "n", "t">>

\* The concatenation of a sequence of sequences.
RECURSIVE Concat(_)
Concat(ss) == IF ss = <<>> THEN <<>> ELSE Head(ss) \o Concat(Tail(ss))

\* A PID controller whose previous value is not enumerated.
ControllerKeysNoPrev(controller) ==
    CASE controller = "Pid" ->
           [c_type |-> W_pid, c_keys |-> <<W_target, W_p, W_i, W_d>>]
      [] controller = "BangBang" ->
           [c_type |-> W_bb, c_keys |-> <<W_threshold, W_current>>]

\* match self.controller of Loop::rec_keys.
ControllerKeys(controller) ==
    CASE controller = "Pid" ->
           [c_type |-> W_pid,
            c_keys |-> <<W_target, W_prev_value, W_p, W_i, W_d>>]
      [] controller = "BangBang" ->
           [c_type |-> W_bb, c_keys |-> <<W_threshold, W_current>>]

\* <Loop as RecKeys>::rec_keys
LoopRecKeys(l) ==
    LET keys == << W_setpoint \o Dot \o l.id >>
        inputs == [j \in 1..Len(l.inputs) |-> W_in \o Dot \o l.inputs[j]]
        outputs == [j \in 1..Len(l.outputs) |-> W_out \o Dot \o l.outputs[j]]
        ck == ControllerKeys(l.controller)
        cntrl == [j \in 1..Len(ck.c_keys) |->
                    W_controller \o Dot \o l.id \o Dot \o ck.c_type \o Dot
                        \o ck.c_keys[j]]
    IN  keys \o inputs \o outputs \o cntrl

\* keys.sort()
RECURSIVE InsertKey(_, _)
InsertKey(sorted, k) ==
    IF sorted = <<>> THEN <<k>>
    ELSE IF StrLess(k, Head(sorted)) THEN <<k>> \o sorted
    ELSE <<Head(sorted)>> \o InsertKey(Tail(sorted), k)

RECURSIVE SortKeys(_)
SortKeys(keys) ==
    IF keys = <<>> THEN <<>>
    ELSE InsertKey(SortKeys(SubSeq(keys, 1, Len(keys) - 1)), keys[Len(keys)])

\* The keys are left as they are.
DedupNone(keys) == keys

\* keys.dedup(): of consecutive equal elements the first is kept.
RECURSIVE Dedup(_)
Dedup(keys) ==
    IF Len(keys) <= 1 THEN keys
    ELSE IF keys[1] = keys[2] THEN Dedup(Tail(keys))
    ELSE <<keys[1]>> \o Dedup(Tail(keys))

\* <SyncRuntime as RecKeys>::rec_keys; state_machines lists the ids in the
\* order in which the map's iterator yields them.
RuntimeRecKeys(rt) ==
    LET loop_keys == Concat([j \in 1..Len(rt.loops) |-> LoopRecKeys(rt.loops[j])])
        fsm_keys == [j \in 1..Len(rt.state_machines) |->
                        W_fsm \o Dot \o rt.state_machines[j]]
    IN  Dedup(SortKeys(loop_keys \o fsm_keys \o <<W_rules>>))

\* Ids of loops and of inputs and outputs.
LoopIds == { <<"L", "1">>, <<"L", "2">> }

IoIds == { <<"i", "1">>, <<"o", "1">> }

\* Longest list of inputs and of outputs of a loop.
MaxIo == 2

\* The sequences over S of length n at most.
SeqsUpTo(S, n) == UNION { [1..k -> S] : k \in 0..n }

Loops ==
    [id : LoopIds, inputs : SeqsUpTo(IoIds, MaxIo),
     outputs : SeqsUpTo(IoIds, MaxIo), controller : {"Pid", "BangBang"}]

\* input = <<loop>>
InitLoopKeys ==
    /\ NoRecorder
    /\ input \in { <<l>> : l \in Loops }
    /\ output = <<>>

ApplyLoopRecKeys ==
    /\ output = <<>>
    /\ output' = << LoopRecKeys(input[1]) >>
    /\ UNCHANGED << input, recorder_vars >>

SpecLoopKeys == InitLoopKeys /\ [][ApplyLoopRecKeys]_vars

\* --------------------------------------------------- the keys of a runtime
\* Loops a runtime is built from: two share their input and output, one lists
\* an output twice.
SampleLoops ==
    { [id |-> <<"L", "1">>, inputs |-> <<<<"i", "1">>>>, outputs |-> <<<<"o", "1">>>>, controller |-> "Pid"],
      [id |-> <<"L", "2">>, inputs |-> <<<<"i", "1">>>>, outputs |-> <<<<"o", "1">>>>,
       controller |-> "BangBang"],
      [id |-> <<"L", "1">>, inputs |-> <<<<"o", "1">>, <<"i", "1">>>>, outputs |-> <<>>,
       controller |-> "BangBang"],
      [id |-> <<"L", "2">>, inputs |-> <<>>, outputs |-> <<<<"o", "1">>, <<"o", "1">>>>, controller |-> "Pid"] }

\* Ids of state machines.
FsmIds == { <<"m", "1">>, <<"m", "2">> }

\* Largest number of loops of a runtime.
MaxLoops == 2

\* The sequences over S in which no element occurs twice.
InjectiveSeqs(S) ==
    { q \in SeqsUpTo(S, Cardinality(S)) :
        \A j, k \in 1..Len(q) : q[j] = q[k] => j = k }

Runtimes ==
    [loops : SeqsUpTo(SampleLoops, MaxLoops),
     state_machines : InjectiveSeqs(FsmIds)]

\* input = <<runtime>>
InitRuntimeKeys ==
    /\ NoRecorder
    /\ input \in { <<rt>> : rt \in Runtimes }
    /\ output = <<>>

ApplyRuntimeRecKeys ==
    /\ output = <<>>
    /\ output' = << RuntimeRecKeys(input[1]) >>
    /\ UNCHANGED << input, recorder_vars >>

SpecRuntimeKeys == InitRuntimeKeys /\ [][ApplyRuntimeRecKeys]_vars

\* ------------------------------------------------------ the value flattener
\* A map id -> value as a map prefix.id -> value.
PrefixMap(prefix, m) ==
    [k \in { prefix \o Dot \o id : id \in DOMAIN m } |->
        m[CHOOSE id \in DOMAIN m : prefix \o Dot \o id = k]]

\* <IoState as RecVals>::rec_vals; of two inserts of one key the later wins.
IoRecVals(io) ==
    PrefixMap(W_mem, io.mem) @@ PrefixMap(W_out, io.outputs)
        @@ PrefixMap(W_in, io.inputs)

\* .join(","): ids are texts.
RECURSIVE JoinIds(_)
JoinIds(ids) ==
    IF ids = <<>> THEN ""
    ELSE IF Len(ids) = 1 THEN ids[1]
    ELSE ids[1] \o "," \o JoinIds(Tail(ids))

\* The ids of the active rules, joined; rules lists <<id, state>> in the order
\* in which the collection is iterated.
ActiveRules(rules) ==
    LET active == SelectSeq(rules, LAMBDA r : r[2])
    IN  JoinIds([j \in 1..Len(active) |-> active[j][1]])

\* controller.<id>.<type>.<field>
ControllerKey(id, c_type, field) ==
    W_controller \o Dot \o id \o Dot \o c_type \o Dot \o field

\* A flattener that writes prev_value also when there is none.
ControllerPairsAlwaysPrev(id, c) ==
    IF c[1] = "Pid"
    THEN { <<ControllerKey(id, W_pid, W_target), <<"Decimal", c[2]>> >>,
           <<ControllerKey(id, W_pid, W_prev_value),
             <<"Decimal", IF c[3] # <<>> THEN c[3][1] ELSE 0>> >>,
           <<ControllerKey(id, W_pid, W_p), <<"Decimal", c[4]>> >>,
           <<ControllerKey(id, W_pid, W_i), <<"Decimal", c[5]>> >>,
           <<ControllerKey(id, W_pid, W_d), <<"Decimal", c[6]>> >> }
    ELSE { <<ControllerKey(id, W_bb, W_threshold), <<"Decimal", c[2]>> >>,
           <<ControllerKey(id, W_bb, W_current), <<"Bit", c[3]>> >> }

\* match c of <SystemState as RecVals>::rec_vals: the entries inserted for the
\* controller state c of id.  c is <<"Pid", target, prev_value, p, i, d>>, with
\* prev_value <<>> (None) or <<v>> (Some(v)), or <<"BangBang", threshold,
\* current>>.
ControllerPairs(id, c) ==
    IF c[1] = "Pid"
    THEN { <<ControllerKey(id, W_pid, W_target), <<"Decimal", c[2]>> >>,
           <<ControllerKey(id, W_pid, W_p), <<"Decimal", c[4]>> >>,
           <<ControllerKey(id, W_pid, W_i), <<"Decimal", c[5]>> >>,
           <<ControllerKey(id, W_pid, W_d), <<"Decimal", c[6]>> >> }
         \cup (IF c[3] # <<>>
               THEN { <<ControllerKey(id, W_pid, W_prev_value),
                        <<"Decimal", c[3][1]>> >> }
               ELSE {})
    ELSE { <<ControllerKey(id, W_bb, W_threshold), <<"Decimal", c[2]>> >>,
           <<ControllerKey(id, W_bb, W_current), <<"Bit", c[3]>> >> }

\* for (id, c) in self.controllers.iter()
ControllersRecVals(controllers) ==
    LET pairs == UNION { ControllerPairs(id, controllers[id]) :
                           id \in DOMAIN controllers }
    IN  [k \in { pr[1] : pr \in pairs } |->
            (CHOOSE pr \in pairs : pr[1] = k)[2]]

\* <SystemState as RecVals>::rec_vals
SystemRecVals(st) ==
    ControllersRecVals(st.controllers)
        @@ PrefixMap(W_fsm, [id \in DOMAIN st.state_machines |->
                                <<"Text", st.state_machines[id]>>])
        @@ (W_rules :> <<"Text", ActiveRules(st.rules)>>)
        @@ PrefixMap(W_setpoint, st.setpoints)
        @@ IoRecVals(st.io)

\* States of controllers.
ControllerStates ==
    { <<"Pid", 100, <<>>, 1, 2, 3>>, <<"Pid", 100, <<70>>, 1, 2, 3>>,
      <<"Pid", 0, <<0>>, 0, 0, 0>>, <<"BangBang", 50, TRUE>> }

\* System states: controllers for any set of loop ids, with and without I/O
\* values, setpoints, rules and state machines.
SystemStates ==
    [io : { [inputs |-> <<>>, outputs |-> <<>>, mem |-> <<>>],
            [inputs |-> (<<"i", "1">> :> <<"Decimal", 35>>),
             outputs |-> (<<"o", "1">> :> <<"Bit", TRUE>>),
             mem |-> (<<"i", "1">> :> <<"Integer", 1>>)] },
     setpoints : { <<>>, (<<"L", "1">> :> <<"Decimal", 200>>) },
     rules : { <<>>, << <<"r1", FALSE>> >>,
               << <<"r1", TRUE>>, <<"r2", FALSE>>, <<"r3", TRUE>> >> },
     state_machines : { <<>>, (<<"m", "1">> :> "idle") },
     controllers : UNION { [D -> ControllerStates] : D \in SUBSET LoopIds }]

\* input = <<system state>>
InitVals ==
    /\ NoRecorder
    /\ input \in { <<st>> : st \in SystemStates }
    /\ output = <<>>

ApplySystemRecVals ==
    /\ output = <<>>
    /\ output' = << SystemRecVals(input[1]) >>
    /\ UNCHANGED << input, recorder_vars >>

SpecVals == InitVals /\ [][ApplySystemRecVals]_vars

\* ------------------------------------------------------- notions of the claims
\* This step is one persist() call, this step is one record() call.
IsPersistCall == calls' = calls + 1 /\ last_call' = "persist"

IsRecordCall == calls' = calls + 1 /\ last_call' = "record"

\* s is an initial part of t.
IsPrefix(s, t) == Len(s) <= Len(t) /\ SubSeq(t, 1, Len(s)) = s

\* The header row and the data rows among the records rs.
HeaderRowsOf(rs) == SelectSeq(rs, LAMBDA r : r = <<"timestamp_utc">> \o cfg.key_list)

DataRowsOf(rs) == SelectSeq(rs, LAMBDA r : r # <<"timestamp_utc">> \o cfg.key_list)

\* The records this step put behind the content the file had.
Appended == SubSeq(file', Len(file) + 1, Len(file'))

\* The records the last call put into the file, and those this recorder
\* instance has put into it since it was created.
LastAppended == SubSeq(file, prev_len + 1, Len(file))

WrittenByInstance == SubSeq(file, Len(file0) + 1, Len(file))

\* Snapshot d comes before snapshot e: by timestamp, and by the order of the
\* record() calls when the timestamps are equal.
Before(d, e) == d.time < e.time \/ (d.time = e.time /\ d.id < e.id)

\* The place of buffer entry i in that order.
RankOf(s, i) == 1 + Cardinality({ k \in 1..Len(s) : Before(s[k], s[i]) })

\* Buffers s and t hold the same snapshots (each entry carries its own id).
SameSnapshots(s, t) ==
    /\ Len(s) = Len(t)
    /\ { s[i] : i \in 1..Len(s) } = { t[i] : i \in 1..Len(t) }

\* ---------------------------------------------------------------------- C1
\* C1: a successful persist() on a non-empty buffer appends exactly as many
\* data rows to the file as record() was called since the previous successful
\* persist() (or since construction).
C1_RowsEqualRecordCalls ==
    [][ (IsPersistCall /\ states # <<>> /\ result' = "Ok")
            => Len(DataRowsOf(Appended)) = since_ok ]_vars

\* A successful persist() that follows a failed one, with two snapshots recorded
\* since construction.
C1_Witness ==
    /\ last_call = "persist" /\ result = "Ok"
    /\ failures = 1 /\ nrecorded = 2 /\ states = <<>>
    /\ Len(DataRowsOf(LastAppended)) = 2

\* ---------------------------------------------------------------------- C2
\* C2: the data rows one persist() call appends are the rows of the buffered
\* snapshots in non-decreasing timestamp order, snapshots of equal timestamp in
\* the order of their record() calls, whatever the order of the buffer.
C2_RowsInTimeOrder ==
    [][ IsPersistCall =>
          LET D == DataRowsOf(Appended)
          IN  /\ Len(D) <= Len(states)
              /\ \A j \in 1..Len(D) :
                   \E i \in 1..Len(states) :
                      /\ RankOf(states, i) = j
                      /\ D[j] = RowRec(cfg, states[i]) ]_vars

\* A persist() call that wrote three data rows for snapshots recorded out of
\* timestamp order, two of them with equal timestamps (the call failed at its
\* last flush, so the sorted buffer is still there to look at).
C2_Witness ==
    /\ last_call = "persist" /\ prev_call.call = "record"
    /\ Len(states) = 3 /\ Len(DataRowsOf(LastAppended)) = 3
    /\ states[1].time = states[2].time /\ states[2].time < states[3].time
    /\ states[3].id = 1 /\ states[1].id = 2
    /\ states[1].values # states[2].values

C4_EmptyPersistIsNoOp ==
    [][ (IsPersistCall /\ states = <<>>) =>
          /\ result' = "Ok" /\ ~io_failed'
          /\ file' = file /\ opened' = opened
          /\ states' = <<>>
          /\ created_header' = created_header ]_vars

\* persist() was called on an empty buffer after the header had been written.
C4_Witness ==
    /\ last_call = "persist"
    /\ warned = {<<"no states to persist">>}
    /\ created_header /\ file # file0

\* ---------------------------------------------------------------------- C5
\* C5: when an I/O operation of persist() fails, persist() returns the error,
\* the buffer holds the same snapshots after the call as before it, and what
\* the file held before the call is still in the file.
C5_FailureKeepsBuffer ==
    [][ (IsPersistCall /\ (io_failed' \/ result' # "Ok")) =>
          /\ result' # "Ok"
          /\ SameSnapshots(states, states')
          /\ IsPrefix(file, file') ]_vars

\* A persist() call that failed after rows of it had reached the file.
C5_Witness ==
    /\ last_call = "persist" /\ result \in {"ErrRow", "ErrFlush"}
    /\ Len(DataRowsOf(LastAppended)) >= 1
    /\ Len(states) >= 2

\* ---------------------------------------------------------------------- C6
\* C6 as stated: a persist() call that directly follows a persist() call that
\* failed with k >= 1 rows written (no record() in between) appends all n rows
\* of the batch, the first k of them being the k rows the failed call had
\* appended.
C6_RetryEmitsAllRows ==
    [][ (IsPersistCall /\ last_call = "persist" /\ result # "Ok"
            /\ Len(DataRowsOf(LastAppended)) >= 1) =>
          LET K == DataRowsOf(LastAppended)
              D == DataRowsOf(Appended)
          IN  /\ Len(D) = Len(states)
              /\ Len(K) <= Len(D)
              /\ SubSeq(D, 1, Len(K)) = K ]_vars

\* C6 amended: a persist() call that directly follows a failed persist() call
\* and returns success appends all n rows of the batch, the first k of them being
\* the k rows the failed call had appended, which are then twice in the file.
C6_SuccessfulRetryEmitsAllRows ==
    [][ (IsPersistCall /\ last_call = "persist" /\ result # "Ok"
            /\ result' = "Ok") =>
          LET K == DataRowsOf(LastAppended)
              D == DataRowsOf(Appended)
              n == Len(states)
          IN  /\ Len(D) = n
              /\ \A j \in 1..n : \E i \in 1..n :
                    RankOf(states, i) = j /\ D[j] = RowRec(cfg, states[i])
              /\ Len(K) <= Len(D)
              /\ SubSeq(D, 1, Len(K)) = K
              /\ Len(DataRowsOf(WrittenByInstance')) =
                    Len(DataRowsOf(WrittenByInstance)) + n ]_vars

\* A successful retry directly after a persist() call that failed with one of
\* the two rows of its batch in the file.
C6_Witness ==
    /\ last_call = "persist" /\ result = "Ok"
    /\ prev_call.call = "persist" /\ prev_call.result # "Ok"
    /\ Len(DataRowsOf(LastAppended)) = 2
    /\ Len(DataRowsOf(WrittenByInstance)) = 3

\* ---------------------------------------------------------------------- C7
\* C7: after a successful persist() the buffer is empty, and a persist() call
\* that directly follows a successful one writes nothing to the file.
C7_SecondPersistWritesNothing ==
    [][ IsPersistCall =>
          /\ result' = "Ok" => states' = <<>>
          /\ (last_call = "persist" /\ result = "Ok") => file' = file ]_vars

\* Two persist() calls in a row, the first of which wrote the buffer out.
C7_Witness ==
    /\ last_call = "persist" /\ result = "Ok"
    /\ prev_call.call = "persist" /\ prev_call.result = "Ok"
    /\ Len(DataRowsOf(WrittenByInstance)) >= 1

\* ---------------------------------------------------------------------- C8
\* C8: what the file held before a persist() call, the content older than the
\* recorder included, is an initial part of what it holds after the call.
C8_AppendOnly ==
    [][ IsPersistCall => (IsPrefix(file, file') /\ IsPrefix(file0, file')) ]_vars

\* A file that held records before the recorder was created, after a failed and
\* a successful persist() call that both wrote to it.
C8_Witness ==
    /\ file0 # <<>> /\ last_call = "persist" /\ failures >= 1
    /\ prev_len > Len(file0) /\ Len(file) > prev_len

\* ---------------------------------------------------------------------- C9
\* C9 as stated, read for the calls that return success: with the header flag
\* unset, persist() on a non-empty buffer writes one header row, "timestamp"
\* followed by the configured keys in the configured order, and sets the flag.
C9_HeaderIsTimestamp ==
    [][ (IsPersistCall /\ ~created_header /\ states # <<>> /\ result' = "Ok") =>
          /\ Appended[1] = <<"timestamp">> \o cfg.key_list
          /\ created_header' ]_vars

\* C9 amended: with the header flag unset, a persist() call on a non-empty
\* buffer that returns success writes one header row, ahead of the data rows,
\* whose cells are "timestamp_utc" followed by the configured keys in the
\* configured order, and sets the flag.
C9_HeaderIsTimestampUtc ==
    [][ (IsPersistCall /\ ~created_header /\ states # <<>> /\ result' = "Ok") =>
          /\ Len(Appended) = 1 + Len(states)
          /\ Appended[1] = <<"timestamp_utc">> \o cfg.key_list
          /\ \A j \in 2..Len(Appended) : Appended[j][1] # "timestamp_utc"
          /\ created_header' ]_vars

\* A successful persist() call wrote the header and one row.
C9_Witness ==
    /\ last_call = "persist" /\ result = "Ok" /\ created_header
    /\ opened = 1 /\ Len(LastAppended) = 2
    /\ LastAppended[1][1] = "timestamp_utc"

\* --------------------------------------------------------------------- C10
\* C10: a file that did not exist before and was written by successful
\* persist() calls only holds the header row, "timestamp_utc" followed by the
\* configured keys in schema order, and then one row per snapshot recorded and
\* persisted.
C10_FileLayout ==
    (file0 = <<>> /\ failures = 0 /\ file # <<>>) =>
        /\ file[1] = <<"timestamp_utc">> \o cfg.key_list
        /\ Len(file) = 1 + (nrecorded - Len(states))
        /\ \A j \in 2..Len(file) :
              /\ Len(file[j]) = 1 + Len(cfg.key_list)
              /\ file[j] \in { RowRec(cfg, [time |-> t, values |-> m]) :
                                t \in Times, m \in Maps }

\* A new file after two successful persist() calls that wrote rows.
C10_Witness ==
    /\ file0 = <<>> /\ failures = 0 /\ opened = 2
    /\ Len(file) = 3 /\ states = <<>>

\* --------------------------------------------------------------------- C11
\* C11: every data row a persist() call appends has 1 + len(key_list) cells:
\* the timestamp cell and then, at place 1 + j, the encoding of the snapshot's
\* value for the j-th configured key, or the empty text when the snapshot has
\* no entry for that key; keys outside key_list give no cell.
C11_RowCells ==
    [][ IsPersistCall =>
          LET D == DataRowsOf(Appended)
          IN  \A r \in 1..Len(D) :
                \E i \in 1..Len(states) :
                   /\ RankOf(states, i) = r
                   /\ Len(D[r]) = 1 + Len(cfg.key_list)
                   /\ \A j \in 1..Len(cfg.key_list) :
                        D[r][1 + j] =
                           IF cfg.key_list[j] \in DOMAIN states[i].values
                           THEN EncodeValue(states[i].values[cfg.key_list[j]])
                           ELSE "" ]_vars

\* A persist() call wrote the row of a snapshot that has no entry for the first
\* configured key, an entry for the second and an entry for a key that is not
\* configured.
C11_Witness ==
    /\ last_call = "persist"
    /\ \E r \in 1..Len(LastAppended) :
          /\ Len(LastAppended[r]) = 3
          /\ LastAppended[r][2] = "" /\ LastAppended[r][3] = "x"

\* --------------------------------------------------------------------- C12
\* The decimal text of an integer, digit by digit.
RECURSIVE NatText(_)
NatText(n) ==
    LET digit == <<"0", "1", "2", "3", "4", "5", "6", "7", "8", "9">>[(n % 10) + 1]
    IN  IF n < 10 THEN digit ELSE NatText(n \div 10) \o digit

IntText(n) == IF n < 0 THEN "-" \o NatText(-n) ELSE NatText(n)

\* C12: the cell written for a value is fixed by its variant: Integer(n) gives
\* the decimal text of n, Bit(b) "true" or "false", Text(s) gives s, Timeout(d)
\* "true" exactly when d is zero and "false" otherwise, Bin(_) the empty text,
\* and persist() returns Ok (Bin with a warning that names the key).
C12_EncodingByVariant ==
    output # <<>> =>
        LET v == input[3]
            o == output[1]
        IN  /\ o.result = "Ok" /\ o.states = <<>>
            /\ Len(o.file) = 2 /\ Len(o.file[2]) = 2
            /\ v[1] = "Integer" => o.file[2][2] = IntText(v[2])
            /\ v[1] = "Bit" => o.file[2][2] = (IF v[2] THEN "true" ELSE "false")
            /\ v[1] = "Text" => o.file[2][2] = v[2]
            /\ v[1] = "Timeout" =>
                  /\ (v[2] = 0 => o.file[2][2] = "true")
                  /\ (v[2] # 0 => o.file[2][2] = "false")
            /\ v[1] = "Bin" => (o.file[2][2] = "" /\ o.warned # {})
            /\ v[1] # "Bin" => o.warned = {}

\* A snapshot with a non-zero Timeout was persisted.
C12_Witness ==
    /\ output # <<>>
    /\ input[3] = <<"Timeout", 5000>>
    /\ output[1].file[2][2] = "false"

\* --------------------------------------------------------------------- C13
\* The elements of a sequence.
Range(q) == { q[j] : j \in 1..Len(q) }

\* C13: for a loop with id L, inputs I, outputs O and controller variant V,
\* Loop::rec_keys returns exactly the keys setpoint.L, in.i for i in I, out.o
\* for o in O, and controller.L.pid.f for f in {target, prev_value, p, i, d}
\* when V is PID or controller.L.bb.f for f in {threshold, current} when V is
\* bang-bang.
C13_LoopKeys ==
    output # <<>> =>
        LET l == input[1]
            pid == { W_controller \o Dot \o l.id \o Dot \o W_pid \o Dot \o f :
                       f \in {W_target, W_prev_value, W_p, W_i, W_d} }
            bb == { W_controller \o Dot \o l.id \o Dot \o W_bb \o Dot \o f :
                      f \in {W_threshold, W_current} }
        IN  /\ Range(output[1]) =
                  { W_setpoint \o Dot \o l.id }
                    \cup { W_in \o Dot \o i : i \in Range(l.inputs) }
                    \cup { W_out \o Dot \o o : o \in Range(l.outputs) }
                    \cup (IF l.controller = "Pid" THEN pid ELSE bb)
            /\ Cardinality(Range(output[1])) =
                  1 + Cardinality(Range(l.inputs)) + Cardinality(Range(l.outputs))
                    + (IF l.controller = "Pid" THEN 5 ELSE 2)

\* The keys of the PID loop L1 with inputs [i1] and outputs [o1] were computed.
C13_Witness ==
    /\ output # <<>>
    /\ input[1] = [id |-> <<"L", "1">>, inputs |-> << <<"i", "1">> >>,
                   outputs |-> << <<"o", "1">> >>, controller |-> "Pid"]
    /\ Len(output[1]) = 8
    /\ output[1][1] = <<"s", "e", "t", "p", "o", "i", "n", "t", ".", "L", "1">>
    /\ output[1][2] = <<"i", "n", ".", "i", "1">>
    /\ output[1][3] = <<"o", "u", "t", ".", "o", "1">>

\* --------------------------------------------------------------------- C14
\* The permutations of 1..n, and sequence q taken in the order p.
Perms(n) == { p \in [1..n -> 1..n] : \A j, k \in 1..n : p[j] = p[k] => j = k }

Permuted(q, p) == [j \in 1..Len(q) |-> q[p[j]]]

\* C14: the list SyncRuntime::rec_keys returns is sorted ascending, holds no key
\* twice, holds "rules", and is the same for every order in which the same
\* loops are declared and the same state machines are yielded.
C14_RuntimeKeysCanonical ==
    output # <<>> =>
        LET rt == input[1]
            keys == output[1]
        IN  /\ \A j \in 1..(Len(keys) - 1) : StrLess(keys[j], keys[j + 1])
            /\ \A j, k \in 1..Len(keys) : keys[j] = keys[k] => j = k
            /\ \E j \in 1..Len(keys) : keys[j] = <<"r", "u", "l", "e", "s">>
            /\ \A p \in Perms(Len(rt.loops)), q \in Perms(Len(rt.state_machines)) :
                  RuntimeRecKeys([loops |-> Permuted(rt.loops, p),
                                  state_machines |-> Permuted(rt.state_machines, q)])
                     = keys
            /\ \A l \in Range(rt.loops) : Range(LoopRecKeys(l)) \subseteq Range(keys)
            /\ \A m \in Range(rt.state_machines) :
                  (<<"f", "s", "m", ".">> \o m) \in Range(keys)

\* The keys of a runtime of two loops that share an input and an output, with
\* two state machines yielded in descending order: "in.i1" and "out.o1" are
\* there once, and the list runs from "controller.<<"L", "1">>.pid.d" to "setpoint.<<"L", "2">>".
C14_Witness ==
    /\ output # <<>>
    /\ Len(input[1].loops) = 2
    /\ input[1].loops[1].id = <<"L", "2">> /\ input[1].loops[1].inputs = <<<<"i", "1">>>>
    /\ input[1].loops[2].id = <<"L", "1">> /\ input[1].loops[2].inputs = <<<<"i", "1">>>>
    /\ input[1].loops[2].controller = "Pid"
    /\ input[1].state_machines = <<<<"m", "2">>, <<"m", "1">>>>
    /\ Len(output[1]) = 14
    /\ output[1][1] = <<"c", "o", "n", "t", "r", "o", "l", "l", "e", "r", ".", "L", "1", ".", "p", "i", "d", ".", "d">>
    /\ output[1][8] = <<"f", "s", "m", ".", "m", "1">> /\ output[1][9] = <<"f", "s", "m", ".", "m", "2">>
    /\ output[1][10] = <<"i", "n", ".", "i", "1">> /\ output[1][11] = <<"o", "u", "t", ".", "o", "1">>
    /\ output[1][12] = <<"r", "u", "l", "e", "s">>
    /\ output[1][14] = <<"s", "e", "t", "p", "o", "i", "n", "t", ".", "L", "2">>

C16_RecordAppendsOnly ==
    [][ IsRecordCall =>
          /\ Len(states') = Len(states) + 1
          /\ SubSeq(states', 1, Len(states)) = states
          /\ states'[Len(states')].time = input'[1]
          /\ states'[Len(states')].values = input'[2]
          /\ created_header' = created_header
          /\ cfg' = cfg
          /\ file' = file ]_vars

\* record() was called with a timestamp older than that of the snapshot already
\* in the buffer, on a recorder that has written its header.
C16_Witness ==
    /\ last_call = "record" /\ Len(states) = 2
    /\ input[1] < states[1].time /\ states[2].time = input[1]
    /\ created_header /\ file # file0

\* --------------------------------------------------------------------- C17
\* The keys that start with "controller.".
IsControllerKey(k) ==
    /\ Len(k) >= 11
    /\ SubSeq(k, 1, 11) = <<"c", "o", "n", "t", "r", "o", "l", "l", "e", "r", ".">>

\* C17: the flattened map holds, for each PID controller C, the keys
\* controller.C.pid.target, .p, .i and .d, and controller.C.pid.prev_value
\* exactly when the state holds a previous value; for each bang-bang controller
\* controller.C.bb.threshold and controller.C.bb.current; it holds no other
\* controller key, and each of them is a key Loop::rec_keys gives for a loop
\* of the same id and variant.
C17_ControllerKeysFlattened ==
    output # <<>> =>
        LET cs == input[1].controllers
            emitted == { k \in DOMAIN output[1] : IsControllerKey(k) }
            K(id, t, f) == <<"c", "o", "n", "t", "r", "o", "l", "l", "e", "r", ".">>
                              \o id \o <<".">> \o t \o <<".">> \o f
            pid == <<"p", "i", "d">>
            bb == <<"b", "b">>
            Expected(id) ==
                IF cs[id][1] = "Pid"
                THEN { K(id, pid, f) :
                         f \in { <<"t", "a", "r", "g", "e", "t">>, <<"p">>,
                                 <<"i">>, <<"d">> } }
                     \cup (IF cs[id][3] # <<>>
                           THEN { K(id, pid, <<"p", "r", "e", "v", "_", "v",
                                               "a", "l", "u", "e">>) }
                           ELSE {})
                ELSE { K(id, bb, <<"t", "h", "r", "e", "s", "h", "o", "l", "d">>),
                       K(id, bb, <<"c", "u", "r", "r", "e", "n", "t">>) }
        IN  /\ emitted = UNION { Expected(id) : id \in DOMAIN cs }
            /\ \A k \in emitted :
                 \E id \in DOMAIN cs :
                    k \in Range(LoopRecKeys([id |-> id, inputs |-> <<>>,
                                             outputs |-> <<>>,
                                             controller |-> cs[id][1]]))

\* A state was flattened in which the PID controller <<"L", "1">> has no previous value
\* and the PID controller <<"L", "2">> has one.
C17_Witness ==
    /\ output # <<>>
    /\ DOMAIN input[1].controllers = { <<"L", "1">>, <<"L", "2">> }
    /\ input[1].controllers[<<"L", "1">>] = <<"Pid", 100, <<>>, 1, 2, 3>>
    /\ input[1].controllers[<<"L", "2">>] = <<"Pid", 100, <<70>>, 1, 2, 3>>
    /\ <<"c", "o", "n", "t", "r", "o", "l", "l", "e", "r", ".", "L", "2", ".", "p", "i", "d", ".", "p", "r", "e", "v", "_", "v", "a", "l", "u", "e">> \in DOMAIN output[1]
    /\ <<"c", "o", "n", "t", "r", "o", "l", "l", "e", "r", ".", "L", "1", ".", "p", "i", "d", ".", "p", "r", "e", "v", "_", "v", "a", "l", "u", "e">> \notin DOMAIN output[1]
    /\ <<"c", "o", "n", "t", "r", "o", "l", "l", "e", "r", ".", "L", "1", ".", "p", "i", "d", ".", "t", "a", "r", "g", "e", "t">> \in DOMAIN output[1]

\* --------------------------------------------------------------------- C18
\* C18: no recorded snapshot is lost.  In every reachable state, failing
\* persist() calls included, each snapshot passed to record() is still in the
\* buffer or its row is among the rows this instance has put in the file; the
\* snapshots that left the buffer with one and the same row are no more than
\* the copies of that row in the file.
C18_NoSnapshotLost ==
    \A e \in recorded :
        LET InBuffer(d) == \E i \in 1..Len(states) : states[i] = d
            r == RowRec(cfg, e)
            gone == { d \in recorded : RowRec(cfg, d) = r /\ ~InBuffer(d) }
            W == WrittenByInstance
        IN  Cardinality(gone) <= Cardinality({ j \in 1..Len(W) : W[j] = r })

\* A persist() call failed at a row after rows of its batch had reached the
\* file, and the whole batch is still buffered.
C18_Witness ==
    /\ last_call = "persist" /\ result = "ErrRow"
    /\ Len(states) >= 2
    /\ Len(DataRowsOf(LastAppended)) >= 1
    /\ Cardinality(recorded) = Len(states)

\* --------------------------------------------------------------------- C19
\* C19: in every reachable state, also after persist() calls that failed at
\* the header write, at a row write or at the flush, the header flag is true
\* only if the header row of this instance is in the file, and every data row
\* this instance has written comes after that header row.
C19_FlagMeansHeaderInFile ==
    /\ created_header => Len(HeaderRowsOf(WrittenByInstance)) >= 1
    /\ DataRowsOf(WrittenByInstance) # <<>> =>
          WrittenByInstance[1] = HeaderRec(cfg)

\* --------------------------------------------------------------------- C20
\* C20: a persist() call that fails at opening the file leaves the recorder
\* and the file as they were: the buffer holds the same snapshots in the same
\* order, the header flag keeps its value and nothing is written; a persist()
\* call changes the buffer or the flag only when it has opened the file.
C20_OpenFailureChangesNothing ==
    [][ IsPersistCall =>
          /\ result' = "ErrOpen" =>
                /\ states' = states
                /\ created_header' = created_header
                /\ cfg' = cfg
                /\ file' = file
          /\ (states' # states \/ created_header' # created_header) =>
                opened' = opened + 1 ]_vars

\* The open failed with a buffer that is not in time order, and the buffer is
\* still in insertion order.
C20_Witness ==
    /\ last_call = "persist" /\ result = "ErrOpen"
    /\ Len(states) = 2
    /\ states[1].time > states[2].time
    /\ states[1].id < states[2].id
    /\ ~created_header
    /\ file = file0

====
